---- MODULE Spec2Model ----
(***************************************************************************)
(* The BP front end of src/main.rs: tokenize, parse, transpile_and_write_c *)
(* and main, which sequences them and then builds and runs the generated   *)
(* C file.                                                                 *)
(*                                                                         *)
(* A Rust String is a sequence of one-character strings.  Indices into     *)
(* the text and into the token vector are 0-based as in the source; the    *)
(* operators CharAt and TokenAt add the 1 that TLA+ sequences need.        *)
(***************************************************************************)
EXTENDS Integers, Sequences, FiniteSets, TLC

VARIABLES
    source_code,   \* main: contents of main.bp, the argument of tokenize
    pos,           \* tokenize: number of chars consumed from chars
    tokens,        \* tokenize: tokens; then the argument of parse
    idx,           \* parse: idx
    reads,         \* parse: the indices i of every tokens[i] evaluated by the latest iteration
    ast,           \* parse: ast; then the argument of transpile_and_write_c
    diags,         \* what the program reported: parse's println! lines and the panic message
    main_c,        \* the file main.c: whether it was created, and its contents
    build_status,  \* outcome of the gcc command
    run_status,    \* outcome of the ./main command
    pc,            \* the stage main is in
    result         \* how the process ended: "running", "Ok", "Err", "panic"

vars == <<source_code, pos, tokens, idx, reads, ast, diags, main_c,
          build_status, run_status, pc, result>>

-----------------------------------------------------------------------------
(* Bounds of the explored inputs *)

MaxChunks == 3    \* input texts are concatenations of at most MaxChunks lexical chunks
MaxStmts == 2     \* ... or renderings of at most MaxStmts well-formed statements
MaxLen == 4       \* parse alone is also run on every token sequence of at most MaxLen tokens

I32Max == 2147483647

-----------------------------------------------------------------------------
(* Characters *)

Digits == <<"0", "1", "2", "3", "4", "5", "6", "7", "8", "9">>

AsciiLetters ==
    {"a", "b", "c", "d", "e", "f", "g", "h", "i", "j", "k", "l", "m",
     "n", "o", "p", "q", "r", "s", "t", "u", "v", "w", "x", "y", "z",
     "A", "B", "C", "D", "E", "F", "G", "H", "I", "J", "K", "L", "M",
     "N", "O", "P", "Q", "R", "S", "T", "U", "V", "W", "X", "Y", "Z"}

\* char::is_digit(10)
IsDigit(ch) == \E i \in 1..10 : Digits[i] = ch

\* one char standing for the letters outside ASCII (e-acute, U+00E9)
NonAsciiLetter == "U+00E9"

\* char::is_alphabetic: every Unicode letter
IsAlphabetic(ch) == ch \in AsciiLetters \cup {NonAsciiLetter}

IsWhitespace(ch) == ch \in {" ", "\n", "\t"}

DigitValue(ch) == (CHOOSE i \in 1..10 : Digits[i] = ch) - 1

-----------------------------------------------------------------------------
(* Tokens *)

Keyword(name) == [type |-> "Keyword", name |-> name]
Identifier(name) == [type |-> "Identifier", name |-> name]
Number(n) == [type |-> "Number", num |-> n]
StringLiteral(s) == [type |-> "StringLiteral", str |-> s]
Equals == [type |-> "Equals"]
Semicolon == [type |-> "Semicolon"]
EndOfFile == [type |-> "EndOfFile"]

-----------------------------------------------------------------------------
(* tokenize *)

\* chars.peek() when p chars were consumed: the char, or None at the end
CharAt(text, p) == text[p + 1]
AtEnd(text, p) == p >= Len(text)

\* the inner loop of the string arm: the position of the next quote at or
\* after p, or the end of the text
RECURSIVE StringEnd(_, _)
StringEnd(text, p) ==
    IF AtEnd(text, p) \/ CharAt(text, p) = "\"" THEN p
    ELSE StringEnd(text, p + 1)

\* the inner loop of the digit arm: the first position at or after p that
\* holds no digit
RECURSIVE DigitsEnd(_, _)
DigitsEnd(text, p) ==
    IF AtEnd(text, p) \/ ~IsDigit(CharAt(text, p)) THEN p
    ELSE DigitsEnd(text, p + 1)

\* the inner loop of the letter arm
RECURSIVE AlphaEnd(_, _)
AlphaEnd(text, p) ==
    IF AtEnd(text, p) \/ ~IsAlphabetic(CharAt(text, p)) THEN p
    ELSE AlphaEnd(text, p + 1)

\* the chars at positions from .. to-1
Slice(text, from, to) == SubSeq(text, from + 1, to)

\* str::parse::<i32> of a non-empty digit run: Overflow when the value does
\* not fit, decided as the library does, before each multiply-and-add
Overflow == [ok |-> FALSE]
RECURSIVE ParseI32From(_, _)
ParseI32From(digs, acc) ==
    IF digs = <<>> THEN [ok |-> TRUE, num |-> acc]
    ELSE LET d == DigitValue(Head(digs))
         IN IF acc > (I32Max - d) \div 10 THEN Overflow
            ELSE ParseI32From(Tail(digs), acc * 10 + d)

ParseI32(digs) == ParseI32From(digs, 0)

IsKeywordSpelling(ident) ==
    ident \in {<<"m">>, <<"c">>, <<"s", "h", "o", "w">>}

WordToken(ident) ==
    IF IsKeywordSpelling(ident) THEN Keyword(ident) ELSE Identifier(ident)

\* after a string's chars: chars.next() skips the closing quote, and does
\* nothing when the text ended first
SkipEndingQuote(text, p) == IF AtEnd(text, p) THEN p ELSE p + 1

PushEndOfFile_Forgotten(toks) == toks

\* tokens.push(Token::EndOfFile) after the scan loop
PushEndOfFile(toks) == Append(toks, EndOfFile)

\* One iteration of tokenize's scan loop with p chars consumed.
\* [panic |-> FALSE, tok, pos]: the token pushed (NoToken for whitespace) and
\* the new position; [panic |-> TRUE, msg]: the iteration panicked.
NoToken == [type |-> "none"]
LexIter(text, p) ==
    LET ch == CharAt(text, p) IN
    CASE ch = "=" -> [panic |-> FALSE, tok |-> Equals, pos |-> p + 1]
      [] ch = ";" -> [panic |-> FALSE, tok |-> Semicolon, pos |-> p + 1]
      [] ch = "\"" ->
            LET e == StringEnd(text, p + 1)
            IN [panic |-> FALSE, tok |-> StringLiteral(Slice(text, p + 1, e)),
                pos |-> SkipEndingQuote(text, e)]
      [] IsDigit(ch) ->
            LET e == DigitsEnd(text, p)
                n == ParseI32(Slice(text, p, e))
            IN IF n.ok THEN [panic |-> FALSE, tok |-> Number(n.num), pos |-> e]
               ELSE [panic |-> TRUE, msg |-> "called Result::unwrap() on an Err value: PosOverflow"]
      [] ch \in AsciiLetters ->
            LET e == AlphaEnd(text, p)
            IN [panic |-> FALSE, tok |-> WordToken(Slice(text, p, e)), pos |-> e]
      [] IsWhitespace(ch) -> [panic |-> FALSE, tok |-> NoToken, pos |-> p + 1]
      [] OTHER -> [panic |-> TRUE, msg |-> "Unexpected character"]

-----------------------------------------------------------------------------
(* AST *)

NumberLiteral(n) == [node |-> "NumberLiteral", num |-> n]
StringLiteralNode(s) == [node |-> "StringLiteral", str |-> s]
VariableDeclaration(name, value) ==
    [node |-> "VariableDeclaration", name |-> name, value |-> value]
Show(s) == [node |-> "Show", str |-> s]

-----------------------------------------------------------------------------
(* parse *)

InBounds_Unchecked(i, toks) == TRUE

\* the guards idx + k < tokens.len() and the loop condition
InBounds(i, toks) == i < Len(toks)

\* tokens[i]; an index at or past the length is the slice-index panic, which
\* ParseStep raises for every index in reads that is out of range
OutOfRange == [type |-> "out of range"]
TokenAt(toks, i) == IF i < Len(toks) THEN toks[i + 1] ELSE OutOfRange

IsIdentifier_AnyNonKeyword(t) == t.type # "Keyword"

\* if let Token::Identifier(name) = ...
IsIdentifier(t) == t.type = "Identifier"

SkipToken_Two(i) == i + 2

\* idx += 1 of the recovery branches
SkipToken(i) == i + 1

PushNode_Front(a, n) == <<n>> \o a

\* ast.push(n)
PushNode(a, n) == Append(a, n)

\* println! lines of parse: with and without a token index
Said(msg, arg, at) == [msg |-> msg, arg |-> arg, at |-> at]
SaidEnd(msg) == [msg |-> msg]

\* what one iteration of the loop leaves behind
After(a, i, said, rd) ==
    [ast |-> a, idx |-> i, said |-> said, reads |-> rd, brk |-> FALSE]

\* the arm "m" | "c"
ParseDeclaration(toks, i, a) ==
    LET k == TokenAt(toks, i).name IN
    IF InBounds(i + 1, toks) THEN
        LET t1 == TokenAt(toks, i + 1) IN
        IF IsIdentifier(t1) THEN
            IF InBounds(i + 2, toks) THEN
                IF TokenAt(toks, i + 2).type = "Equals" THEN
                    IF InBounds(i + 3, toks) THEN
                        LET t3 == TokenAt(toks, i + 3) IN
                        IF t3.type = "Number" THEN
                            After(PushNode(a, VariableDeclaration(t1.name, NumberLiteral(t3.num))),
                                  i + 4, <<>>, {i, i + 1, i + 2, i + 3})
                        ELSE IF t3.type = "StringLiteral" THEN
                            After(PushNode(a, VariableDeclaration(t1.name, StringLiteralNode(t3.str))),
                                  i + 4, <<>>, {i, i + 1, i + 2, i + 3})
                        ELSE
                            After(a, SkipToken(i),
                                  <<Said("Unexpected value after = at token index", <<>>, i + 3)>>,
                                  {i, i + 1, i + 2, i + 3})
                    ELSE
                        After(a, SkipToken(i),
                              <<SaidEnd("Expected a value after = but reached end of tokens.")>>,
                              {i, i + 1, i + 2})
                ELSE
                    After(a, SkipToken(i),
                          <<Said("Expected = after identifier at token index", t1.name, i + 1)>>,
                          {i, i + 1, i + 2})
            ELSE
                After(a, SkipToken(i),
                      <<SaidEnd("Expected = after identifier but reached end of tokens.")>>,
                      {i, i + 1})
        ELSE
            After(a, SkipToken(i),
                  <<Said("Expected identifier after keyword at token index", k, i + 1)>>,
                  {i, i + 1})
    ELSE
        After(a, SkipToken(i),
              <<SaidEnd("Expected identifier but reached end of tokens.")>>, {i})

\* the arm "show"
ParseShow(toks, i, a) ==
    IF InBounds(i + 1, toks) THEN
        LET t1 == TokenAt(toks, i + 1) IN
        IF t1.type = "StringLiteral" THEN
            After(PushNode(a, Show(t1.str)), i + 2, <<>>, {i, i + 1})
        ELSE
            After(a, SkipToken(i),
                  <<Said("Expected string literal after show at token index", <<>>, i + 1)>>,
                  {i, i + 1})
    ELSE
        After(a, SkipToken(i),
              <<SaidEnd("Expected string literal but reached end of tokens.")>>, {i})

\* One iteration of parse's loop at index i (i < tokens.len()): the match on
\* tokens[i]
ParseIter(toks, i, a) ==
    LET t == TokenAt(toks, i) IN
    IF t.type = "Keyword" THEN
        IF t.name \in {<<"m">>, <<"c">>} THEN ParseDeclaration(toks, i, a)
        ELSE IF t.name = <<"s", "h", "o", "w">> THEN ParseShow(toks, i, a)
        ELSE After(a, SkipToken(i), <<Said("Unknown keyword at token index", t.name, i)>>, {i})
    ELSE IF t.type = "Semicolon" THEN After(a, i + 1, <<>>, {i})
    ELSE IF t.type = "EndOfFile" THEN
        [ast |-> a, idx |-> i, said |-> <<>>, reads |-> {i}, brk |-> TRUE]
    ELSE After(a, SkipToken(i), <<Said("Unexpected token at index", t, i)>>, {i})

-----------------------------------------------------------------------------
(* transpile_and_write_c *)

DigitChar(d) == Digits[d + 1]

\* format!("{}", num) of an i32
RECURSIVE Itoa(_)
Itoa(n) ==
    IF n < 0 THEN <<"-">> \o Itoa(-n)
    ELSE IF n < 10 THEN <<DigitChar(n)>>
    ELSE Itoa(n \div 10) \o <<DigitChar(n % 10)>>

Preamble == <<"#include <stdio.h>\n\nint main() {\n">>
Postamble == <<"    return 0;\n}">>

EmitNode_ShowDropped(node) ==
    IF node.node = "VariableDeclaration" THEN
        IF node.value.node = "NumberLiteral" THEN
            <<"    int ">> \o node.name \o <<" = ">> \o Itoa(node.value.num) \o <<";\n">>
        ELSE <<"    char ">> \o node.name \o <<"[] = \"">> \o node.value.str \o <<"\";\n">>
    ELSE <<>>

\* the body of `for node in ast`: what one node appends to c_code
EmitNode(node) ==
    IF node.node = "VariableDeclaration" THEN
        IF node.value.node = "NumberLiteral" THEN
            <<"    int ">> \o node.name \o <<" = ">> \o Itoa(node.value.num) \o <<";\n">>
        ELSE IF node.value.node = "StringLiteral" THEN
            <<"    char ">> \o node.name \o <<"[] = \"">> \o node.value.str \o <<"\";\n">>
        ELSE <<>>
    ELSE IF node.node = "Show" THEN
        <<"    printf(\"">> \o node.str \o <<"\\n\");\n">>
    ELSE <<>>

\* the loop over the nodes, in order
RECURSIVE EmitNodes(_)
EmitNodes(a) == IF a = <<>> THEN <<>> ELSE EmitNode(Head(a)) \o EmitNodes(Tail(a))

\* c_code as written to the file
Generate(a) == Preamble \o EmitNodes(a) \o Postamble

NoFile == [created |-> FALSE, text |-> <<>>]
FileWith(text) == [created |-> TRUE, text |-> text]

-----------------------------------------------------------------------------
(* main *)

Finish(how) == pc' = "done" /\ result' = how

\* Step 1: open and read main.bp
ReadSource ==
    /\ pc = "read"
    /\ \E ok \in BOOLEAN :
          IF ok THEN pc' = "tokenize" /\ result' = result
          ELSE Finish("Err")
    /\ UNCHANGED <<source_code, pos, tokens, idx, reads, ast, diags, main_c,
                   build_status, run_status>>

\* Step 2: one iteration of tokenize's loop, or its end
TokenizeStep ==
    /\ pc = "tokenize"
    /\ IF AtEnd(source_code, pos) THEN
          /\ tokens' = PushEndOfFile(tokens)
          /\ pc' = "parse"
          /\ UNCHANGED <<pos, diags, result>>
       ELSE
          LET r == LexIter(source_code, pos) IN
          IF r.panic THEN
             /\ diags' = Append(diags, SaidEnd(r.msg))
             /\ Finish("panic")
             /\ UNCHANGED <<pos, tokens>>
          ELSE
             /\ pos' = r.pos
             /\ tokens' = IF r.tok = NoToken THEN tokens ELSE Append(tokens, r.tok)
             /\ UNCHANGED <<diags, pc, result>>
    /\ UNCHANGED <<source_code, idx, reads, ast, main_c, build_status, run_status>>

\* Step 3: one iteration of parse's loop, or its end
ParseStep ==
    /\ pc = "parse"
    /\ IF ~InBounds(idx, tokens) THEN
          /\ pc' = "transpile"
          /\ reads' = {}
          /\ UNCHANGED <<idx, ast, diags, result>>
       ELSE
          LET r == ParseIter(tokens, idx, ast) IN
          /\ reads' = r.reads
          /\ IF \E i \in r.reads : i >= Len(tokens) THEN
                /\ diags' = Append(diags, SaidEnd("index out of bounds"))
                /\ Finish("panic")
                /\ UNCHANGED <<idx, ast>>
             ELSE
                /\ idx' = r.idx
                /\ ast' = r.ast
                /\ diags' = diags \o r.said
                /\ pc' = IF r.brk THEN "transpile" ELSE "parse"
                /\ result' = result
    /\ UNCHANGED <<source_code, pos, tokens, main_c, build_status, run_status>>

\* Step 4: write the generated text to main.c; File::create or write_all may fail
Transpile ==
    /\ pc = "transpile"
    /\ LET text == Generate(ast) IN
       \E io \in {"ok", "create failed", "write failed"} :
          CASE io = "ok" ->
                 main_c' = FileWith(text) /\ pc' = "build" /\ result' = result
            [] io = "create failed" ->
                 main_c' = main_c /\ Finish("Err")
            [] io = "write failed" ->
                 /\ \E k \in 0..(Len(text) - 1) : main_c' = FileWith(SubSeq(text, 1, k))
                 /\ Finish("Err")
    /\ UNCHANGED <<source_code, pos, tokens, idx, reads, ast, diags,
                   build_status, run_status>>

\* Step 5: gcc main.c -o main
Build ==
    /\ pc = "build"
    /\ \E st \in {"spawn failed", "nonzero", "zero"} :
          /\ build_status' = st
          /\ IF st = "zero" THEN pc' = "run" /\ result' = result
             ELSE Finish("Err")
    /\ UNCHANGED <<source_code, pos, tokens, idx, reads, ast, diags, main_c, run_status>>

\* Step 6: ./main; its exit status is not inspected
Run ==
    /\ pc = "run"
    /\ \E st \in {"spawn failed", "nonzero", "zero"} :
          /\ run_status' = st
          /\ IF st = "spawn failed" THEN Finish("Err") ELSE Finish("Ok")
    /\ UNCHANGED <<source_code, pos, tokens, idx, reads, ast, diags, main_c, build_status>>

-----------------------------------------------------------------------------
(* Inputs: the texts main.bp may hold, and the token slices parse may be given *)

I32MaxText == <<"2", "1", "4", "7", "4", "8", "3", "6", "4", "7">>
I32MaxPlusOneText == <<"2", "1", "4", "7", "4", "8", "3", "6", "4", "8">>

m == <<"m">>
c == <<"c">>
show == <<"s", "h", "o", "w">>

\* pieces of text: the three keywords' spellings, an identifier, the
\* punctuation, a quote, white space, numbers at the edge of i32, and two
\* chars outside the vocabulary
Chunks ==
    {m, c, show, <<"x">>, <<"=">>, <<";">>, <<"\"">>, <<" ">>, <<"7">>,
     I32MaxText, I32MaxPlusOneText, <<"@">>, <<NonAsciiLetter>>}

RECURSIVE ChunkTexts(_)
ChunkTexts(n) ==
    IF n = 0 THEN {<<>>}
    ELSE LET shorter == ChunkTexts(n - 1)
         IN shorter \cup {t \o ch : t \in shorter, ch \in Chunks}

\* the well-formed statements, as tokens
DeclarationTokens ==
    {<<Keyword(k), Identifier(n), Equals, v>> :
        k \in {m, c}, n \in {<<"x">>, <<"y", "z">>},
        v \in {Number(7), StringLiteral(<<"a">>)}}
ShowTokens == {<<Keyword(show), StringLiteral(s)>> : s \in {<<"b">>, <<"h", "\n", "i">>}}
StatementTokens == DeclarationTokens \cup ShowTokens

\* programs of at most n statements, each with or without its semicolon
RECURSIVE ProgramTokens(_)
ProgramTokens(n) ==
    IF n = 0 THEN {<<>>}
    ELSE LET shorter == ProgramTokens(n - 1)
         IN shorter \cup {p \o st \o semi :
                            p \in shorter, st \in StatementTokens,
                            semi \in {<<>>, <<Semicolon>>}}

\* the source text of a token, and of a program: one space after each token
TokenText(t) ==
    CASE t.type \in {"Keyword", "Identifier"} -> t.name
      [] t.type = "Number" -> Itoa(t.num)
      [] t.type = "StringLiteral" -> <<"\"">> \o t.str \o <<"\"">>
      [] t.type = "Equals" -> <<"=">>
      [] t.type = "Semicolon" -> <<";">>

RECURSIVE ProgramText(_)
ProgramText(toks) ==
    IF toks = <<>> THEN <<>>
    ELSE TokenText(Head(toks)) \o <<" ">> \o ProgramText(Tail(toks))

SourceTexts ==
    ChunkTexts(MaxChunks) \cup {ProgramText(p) : p \in ProgramTokens(MaxStmts)}

\* every token, with one spelling per payload, and a keyword outside the closed set
TokenAlphabet ==
    {Keyword(m), Keyword(show), Keyword(<<"k">>), Identifier(<<"x">>),
     Number(7), StringLiteral(<<"a">>), Equals, Semicolon, EndOfFile}

RECURSIVE TokenSeqs(_)
TokenSeqs(n) ==
    IF n = 0 THEN {<<>>}
    ELSE LET shorter == TokenSeqs(n - 1)
         IN shorter \cup {Append(t, tok) : t \in shorter, tok \in TokenAlphabet}

TokenSlices ==
    TokenSeqs(MaxLen) \cup {Append(p, EndOfFile) : p \in ProgramTokens(MaxStmts)}

-----------------------------------------------------------------------------
(* The program: main over every content of main.bp *)

Init ==
    /\ source_code \in SourceTexts
    /\ pos = 0
    /\ tokens = <<>>
    /\ idx = 0
    /\ reads = {}
    /\ ast = <<>>
    /\ diags = <<>>
    /\ main_c = NoFile
    /\ build_status = "none"
    /\ run_status = "none"
    /\ pc = "read"
    /\ result = "running"

Next == ReadSource \/ TokenizeStep \/ ParseStep \/ Transpile \/ Build \/ Run

Spec == Init /\ [][Next]_vars

(* parse alone, called on every token slice *)

ParseInit ==
    /\ source_code = <<>>
    /\ pos = 0
    /\ tokens \in TokenSlices
    /\ idx = 0
    /\ reads = {}
    /\ ast = <<>>
    /\ diags = <<>>
    /\ main_c = NoFile
    /\ build_status = "none"
    /\ run_status = "none"
    /\ pc = "parse"
    /\ result = "running"

ParseNext == ParseStep

ParseSpec == ParseInit /\ [][ParseNext]_vars

\* parse is sequential code that runs to its return
FairParseSpec == ParseSpec /\ WF_vars(ParseNext)

-----------------------------------------------------------------------------
(* Properties *)

\* tokenize has returned its vector (it did not panic, and main.bp could be read)
TokenizeReturned ==
    \/ pc \in {"parse", "transpile", "build", "run"}
    \/ pc = "done" /\ result # "panic" /\ tokens # <<>>

\* C1: every token sequence tokenize returns ends with EndOfFile, and holds
\* EndOfFile at no other position.
C1_EndsWithExactlyOneEndOfFile ==
    TokenizeReturned =>
        /\ Len(tokens) >= 1
        /\ tokens[Len(tokens)] = EndOfFile
        /\ \A i \in 1..(Len(tokens) - 1) : tokens[i].type # "EndOfFile"

\* tokenize returned tokens and EndOfFile from a text parse then complained about
C1_Witness ==
    /\ pc = "transpile"
    /\ Len(tokens) >= 3
    /\ tokens[Len(tokens)] = EndOfFile
    /\ diags # <<>>

\* C2: every index at which an iteration of parse evaluates tokens[i], the
\* current index or a lookahead, is below the length of the sequence, and parse
\* never panics on an index out of range.
C2_NoReadPastTheEnd ==
    /\ \A i \in reads : i < Len(tokens)
    /\ result # "panic"

\* a sequence without EndOfFile that stops after the = of a declaration: the
\* guard of the third lookahead refused the read
C2_Witness ==
    /\ pc = "transpile"
    /\ tokens # <<>>
    /\ tokens[Len(tokens)].type = "Equals"
    /\ \E k \in 1..Len(diags) :
          diags[k].msg = "Expected a value after = but reached end of tokens."

\* the token i places after index idx, or OutOfRange past the end
Following(i) == TokenAt(tokens, idx + i)

DeclarationKeywordHere ==
    Following(0).type = "Keyword" /\ Following(0).name \in {m, c}

\* the error cases of a statement that starts at idx
KeywordWithoutIdentifier ==
    DeclarationKeywordHere /\ Following(1).type # "Identifier"
IdentifierWithoutEquals ==
    /\ DeclarationKeywordHere
    /\ Following(1).type = "Identifier"
    /\ Following(2).type # "Equals"
EqualsWithoutLiteral ==
    /\ DeclarationKeywordHere
    /\ Following(1).type = "Identifier"
    /\ Following(2).type = "Equals"
    /\ Following(3).type \notin {"Number", "StringLiteral"}
ShowWithoutString ==
    /\ Following(0).type = "Keyword"
    /\ Following(0).name = show
    /\ Following(1).type # "StringLiteral"
UnknownKeyword ==
    Following(0).type = "Keyword" /\ Following(0).name \notin {m, c, show}
UnexpectedToken ==
    Following(0).type \notin {"Keyword", "Semicolon", "EndOfFile"}

ErrorCase ==
    \/ KeywordWithoutIdentifier
    \/ IdentifierWithoutEquals
    \/ EqualsWithoutLiteral
    \/ ShowWithoutString
    \/ UnknownKeyword
    \/ UnexpectedToken

\* one iteration of parse's loop, seen from outside
IterationIsSound ==
    (pc = "parse" /\ idx < Len(tokens)) =>
        IF ErrorCase THEN
            /\ idx' = idx + 1
            /\ Len(diags') = Len(diags) + 1
            /\ ast' = ast
            /\ pc' = "parse"
        ELSE
            \/ idx' > idx /\ diags' = diags /\ pc' = "parse"
            \/ Following(0) = EndOfFile /\ diags' = diags /\ pc' = "transpile"

\* C3: in each error case an iteration of parse reports one diagnostic and
\* advances the index by exactly one; every other iteration advances the index
\* or stops at EndOfFile; and parse returns on every token sequence.
C3_ParseRecoversAndTerminates ==
    /\ [][IterationIsSound]_vars
    /\ <>(pc = "transpile")

\* parse returned after it recovered from a declaration without its literal
\* and from the tokens left behind it
C3_Witness ==
    /\ pc = "transpile"
    /\ Len(diags) >= 3
    /\ diags[1].msg = "Unexpected value after = at token index"

IsDeclarationAt(toks) ==
    /\ Len(toks) >= 4
    /\ toks[1].type = "Keyword" /\ toks[1].name \in {m, c}
    /\ toks[2].type = "Identifier"
    /\ toks[3].type = "Equals"
    /\ toks[4].type \in {"Number", "StringLiteral"}

IsShowAt(toks) ==
    /\ Len(toks) >= 2
    /\ toks[1].type = "Keyword" /\ toks[1].name = show
    /\ toks[2].type = "StringLiteral"

\* toks without the semicolon it may start with
AfterOptionalSemicolon(toks) ==
    IF toks # <<>> /\ toks[1].type = "Semicolon" THEN Tail(toks) ELSE toks

\* toks is well-formed statements, each with or without one semicolon, then EndOfFile
RECURSIVE WellFormedProgram(_)
WellFormedProgram(toks) ==
    IF toks = <<EndOfFile>> THEN TRUE
    ELSE IF IsDeclarationAt(toks)
         THEN WellFormedProgram(AfterOptionalSemicolon(SubSeq(toks, 5, Len(toks))))
    ELSE IF IsShowAt(toks)
         THEN WellFormedProgram(AfterOptionalSemicolon(SubSeq(toks, 3, Len(toks))))
    ELSE FALSE

IsNoSemicolon(t) == t.type # "Semicolon"
WithoutSemicolons(toks) == SelectSeq(toks, IsNoSemicolon)

\* the node of each statement of a well-formed program without semicolons
RECURSIVE StatementNodes(_)
StatementNodes(toks) ==
    IF IsDeclarationAt(toks) THEN
        <<VariableDeclaration(toks[2].name,
                              IF toks[4].type = "Number" THEN NumberLiteral(toks[4].num)
                              ELSE StringLiteralNode(toks[4].str))>>
        \o StatementNodes(SubSeq(toks, 5, Len(toks)))
    ELSE IF IsShowAt(toks) THEN
        <<Show(toks[2].str)>> \o StatementNodes(SubSeq(toks, 3, Len(toks)))
    ELSE <<>>

\* C4: on a well-formed program parse reports nothing and returns the
\* statements' nodes in source order, which are those of the same program
\* with its semicolons removed.
C4_WellFormedProgramsParse ==
    (pc = "transpile" /\ WellFormedProgram(tokens)) =>
        /\ diags = <<>>
        /\ ast = StatementNodes(WithoutSemicolons(tokens))

\* two statements of different kinds, the first with its semicolon
C4_Witness ==
    /\ pc = "transpile"
    /\ WellFormedProgram(tokens)
    /\ Len(ast) = 2
    /\ ast[1].node = "VariableDeclaration"
    /\ ast[2].node = "Show"
    /\ tokens[5] = Semicolon

KeywordThenEndOfFile ==
    tokens \in {<<Keyword(m), EndOfFile>>, <<Keyword(c), EndOfFile>>}

\* C5: when the tokens are a declaration keyword and EndOfFile, parse returns
\* no node and has reported exactly the missing-identifier diagnostic, main
\* goes on to transpile_and_write_c, and the file written holds the preamble
\* and the postamble alone.
C5_MissingIdentifierIsLenient ==
    /\ [][(KeywordThenEndOfFile /\ pc = "parse" /\ pc' # "parse") =>
            /\ pc' = "transpile"
            /\ ast' = <<>>
            /\ Len(diags') = 1
            /\ diags'[1].msg = "Expected identifier after keyword at token index"
            /\ diags'[1].at = 1]_vars
    /\ []((KeywordThenEndOfFile /\ pc \in {"build", "run"}) =>
            main_c = FileWith(Preamble \o Postamble))

C5_Witness ==
    /\ KeywordThenEndOfFile
    /\ pc = "build"
    /\ Len(diags) = 1
    /\ main_c.created

\* the number of quote chars of a text; with no escapes each one opens or
\* closes a string, so an odd number leaves the last string open
RECURSIVE QuoteCount(_)
QuoteCount(text) ==
    IF text = <<>> THEN 0
    ELSE (IF Head(text) = "\"" THEN 1 ELSE 0) + QuoteCount(Tail(text))

EndsInsideString(text) == QuoteCount(text) % 2 = 1

\* C6: when the text ends inside a string literal, tokenize has reported a
\* diagnostic by the time it is over; it does not return as if the string
\* had been closed.
C6_UnterminatedStringIsReported ==
    (pc = "parse" /\ idx = 0 /\ EndsInsideString(source_code)) => diags # <<>>

\* C7: tokenize never aborts the process, whatever the text holds.
C7_TokenizeNeverAborts == result # "panic"

\* C8: once the lexer or the parser has raised a diagnostic the pipeline is
\* over: it is the sole diagnostic, the program has ended in error, and no
\* generated code was written.
C8_FirstDiagnosticAborts ==
    diags # <<>> =>
        /\ Len(diags) = 1
        /\ pc = "done"
        /\ result \in {"Err", "panic"}
        /\ ~main_c.created

\* transpile_and_write_c has returned Ok
Transpiled == pc \in {"build", "run"} \/ build_status # "none"

\* the statement of a node of the closed grammar, as the claim lists them
StatementOf(node) ==
    CASE node.node = "VariableDeclaration" /\ node.value.node = "NumberLiteral" ->
            <<"    int ">> \o node.name \o <<" = ">> \o Itoa(node.value.num) \o <<";\n">>
      [] node.node = "VariableDeclaration" /\ node.value.node = "StringLiteral" ->
            <<"    char ">> \o node.name \o <<"[] = \"">> \o node.value.str \o <<"\";\n">>
      [] node.node = "Show" ->
            <<"    printf(\"">> \o node.str \o <<"\\n\");\n">>
      [] OTHER -> <<"(no statement)">>

RECURSIVE StatementsOf(_)
StatementsOf(a) ==
    IF a = <<>> THEN <<>> ELSE StatementOf(Head(a)) \o StatementsOf(Tail(a))

\* the newline chars of a piece of generated text between preamble and postamble
NewlinesOf(piece) ==
    IF piece \in {"\n", ";\n", "\";\n", "\\n\");\n"} THEN 1 ELSE 0

RECURSIVE LineCount(_)
LineCount(text) ==
    IF text = <<>> THEN 0 ELSE NewlinesOf(Head(text)) + LineCount(Tail(text))

\* the string a node carries into the generated text
TextOf(node) ==
    IF node.node = "Show" THEN node.str
    ELSE IF node.value.node = "StringLiteral" THEN node.value.str
    ELSE <<>>

GeneratedIsStatementsInOrder ==
    main_c = FileWith(Preamble \o StatementsOf(ast) \o Postamble)

\* C9 as stated: the generated text is the preamble, one line per node in
\* program order, and the postamble; every node yields exactly one line.
C9_OneLinePerNode ==
    Transpiled =>
        /\ GeneratedIsStatementsInOrder
        /\ \A i \in 1..Len(ast) : LineCount(StatementOf(ast[i])) = 1

\* C9 amended: the generated text is the preamble, one statement per node in
\* program order, and the postamble; a node's statement is one line when its
\* string holds no newline, and one more line for each newline it holds.
C9_OneStatementPerNode ==
    Transpiled =>
        /\ GeneratedIsStatementsInOrder
        /\ \A i \in 1..Len(ast) :
              LineCount(StatementOf(ast[i])) = 1 + LineCount(TextOf(ast[i]))

\* a show and a declaration were written, in that order
C9_Witness ==
    /\ pc = "build"
    /\ Len(ast) = 2
    /\ ast[1].node = "Show"
    /\ ast[2].node = "VariableDeclaration"
    /\ main_c.created

StageOrder ==
    \/ pc' = pc
    \/ pc' = "done"
    \/ <<pc, pc'>> \in {<<"read", "tokenize">>, <<"tokenize", "parse">>,
                        <<"parse", "transpile">>, <<"transpile", "build">>,
                        <<"build", "run">>}

\* C10: the stages follow one another in the order tokenize, parse, write,
\* build, run; a compiler that exits nonzero ends the program in error with
\* the binary never run, and a binary that exits nonzero ends it in error too.
C10_BuildAndRunErrorsAreFatal ==
    [][/\ StageOrder
       /\ build_status' = "nonzero" => (result' = "Err" /\ run_status' = "none")
       /\ run_status' = "nonzero" => result' = "Err"]_vars

====
